---- MODULE Spec2Model ----
(***************************************************************************)
(* Model of FigmaToShotstackConverter (src/converter.py): the walk over a  *)
(* Figma page, the layer ordering, the image overlay, the merge list and   *)
(* the assembled Shotstack template, for one page and for all pages.       *)
(*                                                                         *)
(* Strings the code inspects character by character (node names, asset     *)
(* references, URLs) are sequences of one-character strings.  Real numbers *)
(* rounded to 3 decimals are integers counting thousandths.                *)
(***************************************************************************)
EXTENDS Integers, Sequences, FiniteSets, TLC

(* ---------------------------------------------------------------------- *)
(* Bounds                                                                  *)
(* ---------------------------------------------------------------------- *)
\* number of nodes in a document (pages themselves not counted)
NumNodes == 4
\* largest number of pages of a multi-page document
MaxPages == 2

NodeIds == 1..NumNodes

\* Python's None where a layer, a string or a template is expected
NoLayer == [type |-> "None"]
NoString == <<"None">>
NoTemplate == [none |-> TRUE]

(* ---------------------------------------------------------------------- *)
(* Characters: str.lower(), str.upper(), str.replace(' ', '_'), \w, \s     *)
(* ---------------------------------------------------------------------- *)
LowerAlpha ==
  <<"a","b","c","d","e","f","g","h","i","j","k","l","m",
    "n","o","p","q","r","s","t","u","v","w","x","y","z">>
UpperAlpha ==
  <<"A","B","C","D","E","F","G","H","I","J","K","L","M",
    "N","O","P","Q","R","S","T","U","V","W","X","Y","Z">>
Digits == <<"0","1","2","3","4","5","6","7","8","9">>

Range(s) == {s[i] : i \in DOMAIN s}

\* str.lower() and str.upper() on the letters
LowerOf == [c \in Range(UpperAlpha) |-> LowerAlpha[CHOOSE i \in 1..26 : UpperAlpha[i] = c]]
UpperOf == [c \in Range(LowerAlpha) |-> UpperAlpha[CHOOSE i \in 1..26 : LowerAlpha[i] = c]]
lowerChar(c) == IF c \in DOMAIN LowerOf THEN LowerOf[c] ELSE c
upperChar(c) == IF c \in DOMAIN UpperOf THEN UpperOf[c] ELSE c

lower(s) == [i \in 1..Len(s) |-> lowerChar(s[i])]
upper(s) == [i \in 1..Len(s) |-> upperChar(s[i])]
\* s.replace(' ', '_')
replaceSpace(s) == [i \in 1..Len(s) |-> IF s[i] = " " THEN "_" ELSE s[i]]

\* Python's `sub in s`
Contains(s, sub) ==
  \E i \in 1..(Len(s) - Len(sub) + 1) : SubSeq(s, i, i + Len(sub) - 1) = sub

\* regular-expression classes \w and \s
WordChars == Range(LowerAlpha) \cup Range(UpperAlpha) \cup Range(Digits) \cup {"_"}
SpaceChars == {" ", "\t", "\n"}
IsWord(c) == c \in WordChars
IsSpace(c) == c \in SpaceChars

(* ---------------------------------------------------------------------- *)
(* Numbers: round(v, 3) on v = num/den, as an integer count of 1/scale     *)
(* ---------------------------------------------------------------------- *)
RECURSIVE Scaled(_, _, _)
\* num/den (den > 0) times 10^k by long division: its floor q and the
\* numerator r of what is left over
Scaled(num, den, k) ==
  IF k = 0 THEN [q |-> num \div den, r |-> num % den]
  ELSE LET p == Scaled(num, den, k - 1)
       IN  [q |-> 10 * p.q + (10 * p.r) \div den, r |-> (10 * p.r) % den]

\* round(num/den, k) times 10^k: Python's round, half to even
RoundHalfEven(num, den, k) ==
  LET p == Scaled(num, den, k)
  IN  IF 2 * p.r < den THEN p.q
      ELSE IF 2 * p.r > den THEN p.q + 1
      ELSE IF p.q % 2 = 0 THEN p.q ELSE p.q + 1

\* one axis without the clamp
AxisOffsetUnclamped(pos, extent, canvasExtent, sign) ==
  RoundHalfEven(sign * (2 * pos + extent - canvasExtent), 2 * canvasExtent, 3)

\* _calculate_offset, one axis: centre = pos + extent/2, normalised to the
\* canvas half extent, halved, clamped to [-1, 1], rounded to 3 decimals.
\* sign = -1 for the Y axis (negated before halving).
AxisOffset(pos, extent, canvasExtent, sign) ==
  LET num == sign * (2 * pos + extent - canvasExtent)
      den == 2 * canvasExtent
  IN  IF num > den THEN 1000
      ELSE IF num < -den THEN -1000
      ELSE RoundHalfEven(num, den, 3)

\* the offsets without the flip of the Y axis
calculate_offset_unflipped(bbox, canvas_width, canvas_height) ==
  << AxisOffset(bbox.x, bbox.width, canvas_width, 1),
     AxisOffset(bbox.y, bbox.height, canvas_height, 1) >>

calculate_offset(bbox, canvas_width, canvas_height) ==
  << AxisOffset(bbox.x, bbox.width, canvas_width, 1),
     AxisOffset(bbox.y, bbox.height, canvas_height, -1) >>

\* ((w / cw) + (h / ch)) / 2 rounded to 3 decimals
MeanScale(w, h, cw, ch) == RoundHalfEven(w * ch + h * cw, 2 * cw * ch, 3)

(* ---------------------------------------------------------------------- *)
(* Documents: what figma.get_file(file_key).document['children'] returns   *)
(* ---------------------------------------------------------------------- *)
\* node names a designer gives: Frame 2 Hero, Logo Badge, Sticker, Hero-Shot,
\* Background Pattern, Frame 3 Detail, Frame 2 Logo, Frame 1
NamePool ==
  << <<"F","r","a","m","e"," ","2"," ","H","e","r","o">>,
     <<"L","o","g","o"," ","B","a","d","g","e">>,
     <<"S","t","i","c","k","e","r">>,
     <<"H","e","r","o","-","S","h","o","t">>,
     <<"B","a","c","k","g","r","o","u","n","d"," ","P","a","t","t","e","r","n">>,
     <<"F","r","a","m","e"," ","3"," ","D","e","t","a","i","l">>,
     <<"F","r","a","m","e"," ","2"," ","L","o","g","o">>,
     <<"F","r","a","m","e"," ","1">> >>

\* the names given freely to every layer: one of every rank and one of two
FreeNames == {NamePool[i] : i \in {1, 2, 3, 5, 6, 7}}
\* a smaller choice: a name of rank 0, one of rank 2, one that is no identifier
FewNames == {NamePool[i] : i \in {1, 2, 4}}

\* page names: Page/One, Page Two, Page-3
PageNamePool ==
  << <<"P","a","g","e","/","O","n","e">>,
     <<"P","a","g","e"," ","T","w","o">>,
     <<"P","a","g","e","-","3">> >>

\* a page name no document has
MissingPage == <<"N","o","w","h","e","r","e">>

Kinds == {"FRAME", "RECTANGLE", "VECTOR", "TEXT", "GROUP"}
\* only frames and groups hold children in a Figma document
ContainerKinds == {"FRAME", "GROUP"}

Box(x, y, w, h) == [x |-> x, y |-> y, width |-> w, height |-> h]

\* absoluteBoundingBox values, in document order
BoxPool ==
  << Box(0, 0, 1200, 1200), Box(100, 80, 100, 50), Box(300, 300, 600, 600),
     Box(0, 1000, 300, 100), Box(2000, -900, 500, 200) >>

\* boxes of a page's main frame
MainBoxes == {Box(0, 0, 1200, 1200), Box(0, 0, 1080, 1920)}
\* frame sizes around the thresholds of the fit rule
Widths == {75, 100, 398, 400, 600}
Heights == {50, 66, 67, 300, 600}

PoolAt(pool, i) == pool[((i - 1) % Len(pool)) + 1]

(* A document is a table of nodes in document order (a node's parent comes  *)
(* before it; parent 0 is the page pageOf names) and the page names.       *)
RECURSIVE AncSelf(_, _)
\* the node n and its ancestors
AncSelf(parent, n) == IF n = 0 THEN {} ELSE {n} \cup AncSelf(parent, parent[n])

RECURSIVE Trees(_)
\* every tree shape and kind assignment over the first n nodes
Trees(n) ==
  IF n = 0 THEN {[parent |-> <<>>, kind |-> <<>>]}
  ELSE UNION { { [parent |-> Append(t.parent, p), kind |-> Append(t.kind, k)] :
                   p \in {0} \cup {a \in AncSelf(t.parent, n - 1) : t.kind[a] \in ContainerKinds},
                   k \in Kinds } :
               t \in Trees(n - 1) }

OnePage == <<PageNamePool[1]>>

\* every shape, names and boxes by position in the document
ShapeDocs ==
  { [pages |-> OnePage, pageOf |-> [i \in NodeIds |-> 1],
     parent |-> t.parent, kind |-> t.kind,
     name |-> [i \in NodeIds |-> PoolAt(NamePool, i)],
     box |-> [i \in NodeIds |-> PoolAt(BoxPool, i)]] : t \in Trees(NumNodes) }

\* a main frame holding vectors named freely out of names
NameDocsOf(names) ==
  { [pages |-> OnePage, pageOf |-> [i \in NodeIds |-> 1],
     parent |-> [i \in NodeIds |-> IF i = 1 THEN 0 ELSE 1],
     kind |-> [i \in NodeIds |-> IF i = 1 THEN "FRAME" ELSE "VECTOR"],
     name |-> [i \in NodeIds |-> IF i = 1 THEN NamePool[8] ELSE nm[i]],
     box |-> [i \in NodeIds |-> PoolAt(BoxPool, i)]] :
    nm \in [2..NumNodes -> names] }

\* a main frame holding one frame of every size with a rectangle in it,
\* followed by text nodes
SizeDocs ==
  { [pages |-> OnePage, pageOf |-> [i \in NodeIds |-> 1],
     parent |-> [i \in NodeIds |-> IF i = 1 THEN 0 ELSE IF i = 3 THEN 2 ELSE 1],
     kind |-> [i \in NodeIds |-> IF i \in {1, 2} THEN "FRAME"
                                 ELSE IF i = 3 THEN "RECTANGLE" ELSE "TEXT"],
     name |-> [i \in NodeIds |-> PoolAt(NamePool, i)],
     box |-> [i \in NodeIds |-> IF i = 1 THEN mb
                                ELSE IF i = 2 THEN Box(100, 80, w, h)
                                ELSE PoolAt(BoxPool, i)]] :
    mb \in MainBoxes, w \in Widths, h \in Heights }

\* documents of several pages, each node a top-level vector or text node
PagesDocs ==
  { [pages |-> [q \in 1..m |-> PoolAt(PageNamePool, q)],
     pageOf |-> [i \in NodeIds |-> ((i - 1) % m) + 1],
     parent |-> [i \in NodeIds |-> 0],
     kind |-> kd,
     name |-> [i \in NodeIds |-> PoolAt(NamePool, i)],
     box |-> [i \in NodeIds |-> PoolAt(BoxPool, i)]] :
    m \in 2..MaxPages, kd \in [NodeIds -> {"VECTOR", "TEXT"}] }

Docs == NameDocsOf(FewNames) \cup SizeDocs \cup PagesDocs

\* node.get('children', []) of node n, in child order
Children(d, n) ==
  SelectSeq([i \in NodeIds |-> i], LAMBDA i : d.parent[i] = n)
\* page.get('children', []) of page q
PageChildren(d, q) ==
  SelectSeq([i \in NodeIds |-> i], LAMBDA i : d.parent[i] = 0 /\ d.pageOf[i] = q)

(* ---------------------------------------------------------------------- *)
(* Node Classifier and Tree Walker                                         *)
(* ---------------------------------------------------------------------- *)
\* f'{{{{ {name.upper().replace(" ", "_")} }}}}'
Placeholder(name) == <<"{", "{", " ">> \o replaceSpace(upper(name)) \o <<" ", "}", "}">>

ImagePlaceholder ==
  <<"{","{"," ","I","M","A","G","E","_","P","L","A","C","E","H","O","L","D","E","R"," ","}","}">>

parse_text_node(d, n, cw, ch) ==
  [type |-> "text",
   asset |-> [type |-> "html", width |-> d.box[n].width, height |-> d.box[n].height,
              html |-> d.name[n], css |-> "color: #000000; font-size: 16px; font-family: 'Arial'"],
   position |-> "center", offset |-> calculate_offset(d.box[n], cw, ch),
   fit |-> "none", scale |-> 1000]

parse_image_node(d, n, cw, ch) ==
  [type |-> "image",
   asset |-> [type |-> "image", src |-> ImagePlaceholder],
   position |-> "center", offset |-> calculate_offset(d.box[n], cw, ch),
   fit |-> "crop", scale |-> 1000]

parse_frame_node(d, n, cw, ch) ==
  [type |-> "frame",
   asset |-> [type |-> "image", src |-> Placeholder(d.name[n])],
   position |-> "center", offset |-> calculate_offset(d.box[n], cw, ch),
   fit |-> "crop",
   scale |-> MeanScale(d.box[n].width, d.box[n].height, cw, ch)]

\* rectangles of these documents carry a fill; text nodes carry none
HasFills(d, n) == d.kind[n] = "RECTANGLE"

\* the classifier: a layer, or NoLayer
parse_node(d, n, cw, ch) ==
  IF d.kind[n] = "TEXT" THEN parse_text_node(d, n, cw, ch)
  ELSE IF d.kind[n] = "RECTANGLE" /\ HasFills(d, n) THEN parse_image_node(d, n, cw, ch)
  ELSE IF d.kind[n] = "VECTOR" THEN parse_frame_node(d, n, cw, ch)
  ELSE IF d.kind[n] = "FRAME" /\ Children(d, n) = <<>> THEN parse_frame_node(d, n, cw, ch)
  ELSE NoLayer

\* the direct children of kind RECTANGLE or VECTOR, in child order
ImageChildren(d, n) ==
  SelectSeq(Children(d, n), LAMBDA c : d.kind[c] \in {"RECTANGLE", "VECTOR"})

\* the fit rule with a frame of 400 counted as small
FitModeInclusive(w, h) ==
  IF 2 * w > 3 * h /\ (IF w > h THEN w ELSE h) <= 400 THEN "contain" ELSE "crop"

\* is_landscape and is_small
FitMode(w, h) ==
  IF 2 * w > 3 * h /\ (IF w > h THEN w ELSE h) < 400 THEN "contain" ELSE "crop"

\* the composite layer, fetching the frame itself
CompositeLayerOfFrame(d, n, cw, ch) ==
  [type |-> "image",
   asset |-> [type |-> "image", src |-> Placeholder(d.name[n])],
   position |-> "center", offset |-> calculate_offset(d.box[n], cw, ch),
   fit |-> FitMode(d.box[n].width, d.box[n].height),
   scale |-> MeanScale(d.box[n].width, d.box[n].height, cw, ch),
   node_id |-> n,
   node_name |-> d.name[n],
   frame_bbox |-> d.box[n],
   expected_aspect |-> RoundHalfEven(d.box[n].width, d.box[n].height, 2)]

\* the layer of a frame that holds an image child
CompositeLayer(d, n, cw, ch) ==
  [type |-> "image",
   asset |-> [type |-> "image", src |-> Placeholder(d.name[n])],
   position |-> "center", offset |-> calculate_offset(d.box[n], cw, ch),
   fit |-> FitMode(d.box[n].width, d.box[n].height),
   scale |-> MeanScale(d.box[n].width, d.box[n].height, cw, ch),
   node_id |-> Head(ImageChildren(d, n)),
   node_name |-> d.name[n],
   frame_bbox |-> d.box[n],
   expected_aspect |-> RoundHalfEven(d.box[n].width, d.box[n].height, 2)]

\* the layer of a standalone vector
VectorLayer(d, n, cw, ch) ==
  [type |-> "frame",
   asset |-> [type |-> "image", src |-> Placeholder(d.name[n])],
   position |-> "center", offset |-> calculate_offset(d.box[n], cw, ch),
   fit |-> "crop",
   scale |-> MeanScale(d.box[n].width, d.box[n].height, cw, ch),
   node_id |-> n,
   node_name |-> d.name[n]]

RECURSIVE extract_all_nodes(_, _, _, _, _), ExtractEach(_, _, _, _)
\* the layers of the nodes of a child list, concatenated in child order
ExtractEach(d, kids, cw, ch) ==
  IF kids = <<>> THEN <<>>
  ELSE extract_all_nodes(d, Head(kids), cw, ch, FALSE) \o ExtractEach(d, Tail(kids), cw, ch)

\* _extract_all_nodes(node, canvas_width, canvas_height, skip_parent)
extract_all_nodes(d, n, cw, ch, skip_parent) ==
  IF skip_parent THEN ExtractEach(d, Children(d, n), cw, ch)
  ELSE IF d.kind[n] = "FRAME" /\ Children(d, n) # <<>> /\ ImageChildren(d, n) # <<>>
       THEN <<CompositeLayer(d, n, cw, ch)>>
  ELSE IF d.kind[n] = "VECTOR" THEN <<VectorLayer(d, n, cw, ch)>>
  ELSE IF d.kind[n] = "FRAME" THEN ExtractEach(d, Children(d, n), cw, ch)
  ELSE <<>>

RECURSIVE extract_node_ids(_, _, _), IdsEach(_, _)
IdsEach(d, kids) ==
  IF kids = <<>> THEN <<>>
  ELSE extract_node_ids(d, Head(kids), FALSE) \o IdsEach(d, Tail(kids))

\* _extract_node_ids(node, skip_parent): of the kinds these documents hold,
\* FRAME, RECTANGLE and VECTOR are in the code's list of visual kinds
extract_node_ids(d, n, skip_parent) ==
  (IF ~skip_parent /\ d.kind[n] \in {"FRAME", "RECTANGLE", "VECTOR"} THEN <<n>> ELSE <<>>)
  \o IdsEach(d, Children(d, n))

\* the first FRAME child of the page, or 0
MainFrame(d, q) ==
  LET frames == SelectSeq(PageChildren(d, q), LAMBDA c : d.kind[c] = "FRAME")
  IN  IF frames = <<>> THEN 0 ELSE Head(frames)

\* canvas_width, canvas_height of a conversion of page q
Canvas(d, q, output_width, output_height) ==
  IF MainFrame(d, q) = 0 THEN <<output_width, output_height>>
  ELSE <<d.box[MainFrame(d, q)].width, d.box[MainFrame(d, q)].height>>

\* all_nodes of a conversion of page q
WalkPage(d, q, cw, ch) ==
  IF MainFrame(d, q) # 0 THEN extract_all_nodes(d, MainFrame(d, q), cw, ch, TRUE)
  ELSE ExtractEach(d, PageChildren(d, q), cw, ch)

\* node_ids of a conversion of page q
PageNodeIdsTopLevel(d, q) == PageChildren(d, q)

PageNodeIds(d, q) ==
  IF MainFrame(d, q) # 0 THEN extract_node_ids(d, MainFrame(d, q), TRUE)
  ELSE IdsEach(d, PageChildren(d, q))

RECURSIVE Visited(_, _, _)
\* the nodes _extract_all_nodes is called on with skip_parent = False in
\* the call on n
Visited(d, n, skip_parent) ==
  IF skip_parent THEN UNION {Visited(d, c, FALSE) : c \in Range(Children(d, n))}
  ELSE {n} \cup (IF d.kind[n] = "FRAME" /\ ImageChildren(d, n) = <<>>
                 THEN UNION {Visited(d, c, FALSE) : c \in Range(Children(d, n))}
                 ELSE {})

\* the nodes the walk of page q reaches
VisitedNodes(d, q) ==
  IF MainFrame(d, q) # 0 THEN Visited(d, MainFrame(d, q), TRUE)
  ELSE UNION {Visited(d, c, FALSE) : c \in Range(PageChildren(d, q))}

\* the node n and the nodes below it
Subtree(d, n) == {m \in NodeIds : n \in AncSelf(d.parent, m)}

(* ---------------------------------------------------------------------- *)
(* Layer Orderer                                                           *)
(* ---------------------------------------------------------------------- *)
fr(c) == <<"f", "r", "a", "m", "e", " ", c>>

\* the sort key with the frame numbers tested before the words
get_layer_order_numbers_first(node) ==
  LET name == lower(node.node_name)
  IN  IF Contains(name, fr("4")) THEN 0
      ELSE IF Contains(name, fr("1")) THEN 1
      ELSE IF Contains(name, fr("2")) THEN 2
      ELSE IF Contains(name, fr("3")) THEN 3
      ELSE IF Contains(name, <<"l","o","g","o">>) THEN 0
      ELSE IF Contains(name, <<"b","a","c","k","g","r","o","u","n","d">>) THEN 1
      ELSE 10

\* get_layer_order(node)
get_layer_order(node) ==
  LET name == lower(node.node_name)
  IN  IF Contains(name, fr("4")) \/ Contains(name, <<"l","o","g","o">>) THEN 0
      ELSE IF Contains(name, fr("1"))
              \/ Contains(name, <<"b","a","c","k","g","r","o","u","n","d">>) THEN 1
      ELSE IF Contains(name, fr("2")) THEN 2
      ELSE IF Contains(name, fr("3")) THEN 3
      ELSE 10

\* x put behind every element of the sorted list acc whose key is not larger
InsertStable(acc, x) ==
  LET k == Cardinality({i \in DOMAIN acc : get_layer_order(acc[i]) <= get_layer_order(x)})
  IN  SubSeq(acc, 1, k) \o <<x>> \o SubSeq(acc, k + 1, Len(acc))

RECURSIVE SortFrom(_, _)
SortFrom(acc, rest) ==
  IF rest = <<>> THEN acc ELSE SortFrom(InsertStable(acc, Head(rest)), Tail(rest))

\* sorted(all_nodes, key=get_layer_order): a stable sort
sorted(nodes) == SortFrom(<<>>, nodes)

(* ---------------------------------------------------------------------- *)
(* Placeholder / Merge Resolver                                            *)
(* ---------------------------------------------------------------------- *)
\* the first position from j on whose character fails P, or Len(s) + 1
SkipWhile(s, j, P(_)) ==
  CHOOSE k \in j..(Len(s) + 1) :
    /\ k = Len(s) + 1 \/ ~P(s[k])
    /\ \A m \in j..(k - 1) : P(s[m])

\* the group (\w+) of a match of \{\{\s*(\w+)\s*\}\} starting at i, or NoString
MatchAt(s, i) ==
  IF i + 1 > Len(s) \/ s[i] # "{" \/ s[i + 1] # "{" THEN NoString
  ELSE LET a == SkipWhile(s, i + 2, IsSpace)
           b == SkipWhile(s, a, IsWord)
           c == SkipWhile(s, b, IsSpace)
       IN  IF b > a /\ c + 1 <= Len(s) /\ s[c] = "}" /\ s[c + 1] = "}"
           THEN SubSeq(s, a, b - 1)
           ELSE NoString

\* re.search(r'\{\{\s*(\w+)\s*\}\}', src).group(1), or NoString without a match
var_match(src) ==
  LET hits == {i \in 1..Len(src) : MatchAt(src, i) # NoString}
  IN  IF hits = {} THEN NoString
      ELSE MatchAt(src, CHOOSE i \in hits : \A j \in hits : i <= j)

\* the URL the image service gives for a node
Url(id) == <<"s", "3", ":", "/", "/", PoolAt(Digits, id + 1)>>

\* `v and v.strip()`: a value that is kept by the filter
ValidUrl(v) == v # NoString /\ \E i \in 1..Len(v) : ~IsSpace(v[i])

\* the response taken as it comes
FilterNothing(images) == images

\* valid_images: the entries of the response with a usable URL
FilterImages(images) ==
  [k \in {i \in DOMAIN images : ValidUrl(images[i])} |-> images[k]]

\* what the service may answer for an id it did not render
Absent == <<"absent">>
BadValues == {NoString, <<>>, <<" ">>, Absent}

\* a response: the ids of `good` rendered, the others answered by `bad`
Response(ids, good, bad) ==
  [k \in {i \in Range(ids) : i \in good \/ bad # Absent} |->
     IF k \in good THEN Url(k) ELSE bad]

EmptyMap == [k \in {} |-> NoString]

\* asset of the clip: a copy of the layer's asset, with the real URL when
\* one was fetched for the layer's node
ClipAsset(node_data, populate_images, images) ==
  IF /\ populate_images
     /\ "node_id" \in DOMAIN node_data
     /\ node_data.node_id \in DOMAIN images
     /\ node_data.asset.type = "image"
  THEN [node_data.asset EXCEPT !.src = images[node_data.node_id]]
  ELSE node_data.asset

Clip(node_data, populate_images, images, duration) ==
  [asset |-> ClipAsset(node_data, populate_images, images),
   start |-> 0, length |-> duration,
   position |-> node_data.position, fit |-> node_data.fit,
   scale |-> node_data.scale, offset |-> node_data.offset]

\* the merge entries a clip asset adds: one or none
MergeOf(asset) ==
  IF "src" \in DOMAIN asset /\ Contains(asset.src, <<"{", "{">>) /\ var_match(asset.src) # NoString
  THEN <<[find |-> var_match(asset.src), replace |-> <<>>]>>
  ELSE <<>>

RECURSIVE BuildTracks(_, _, _, _), BuildMerge(_, _, _), BuildMergeOnce(_, _, _)
\* tracks after the loop over all_nodes_sorted
BuildTracks(nodes, populate_images, images, duration) ==
  IF nodes = <<>> THEN <<>>
  ELSE <<[clips |-> <<Clip(Head(nodes), populate_images, images, duration)>>]>>
       \o BuildTracks(Tail(nodes), populate_images, images, duration)

\* the merge list with every name entered once
BuildMergeOnce(nodes, populate_images, images) ==
  IF nodes = <<>> THEN <<>>
  ELSE LET rest == BuildMergeOnce(Tail(nodes), populate_images, images)
       IN  SelectSeq(MergeOf(ClipAsset(Head(nodes), populate_images, images)),
                     LAMBDA e : e \notin Range(rest)) \o rest

\* merge_variables after the loop over all_nodes_sorted
BuildMerge(nodes, populate_images, images) ==
  IF nodes = <<>> THEN <<>>
  ELSE MergeOf(ClipAsset(Head(nodes), populate_images, images))
       \o BuildMerge(Tail(nodes), populate_images, images)

(* ---------------------------------------------------------------------- *)
(* Template Assembler                                                      *)
(* ---------------------------------------------------------------------- *)
\* the duration as requested
ClipLengthRequested(duration, image_only) == duration

\* duration after the image-only adjustment
ClipLength(duration, image_only) == IF image_only THEN 1 ELSE duration

OutputBlock(output_width, output_height, image_only) ==
  LET base == [format |-> "png", size |-> [width |-> output_width, height |-> output_height]]
  IN  IF image_only THEN base ELSE base @@ [fps |-> 25]

\* the template convert_to_shotstack returns
Template(nodes, a, images) ==
  LET all_nodes_sorted == sorted(nodes)
      tracks == BuildTracks(all_nodes_sorted, a.populate_images, images,
                            ClipLength(a.duration, a.image_only))
      merge == BuildMerge(all_nodes_sorted, a.populate_images, images)
      base == [timeline |-> [background |-> "#ffffff", tracks |-> tracks],
               output |-> OutputBlock(a.output_width, a.output_height, a.image_only)]
  IN  IF merge # <<>> THEN base @@ [merge |-> merge] ELSE base

(* ---------------------------------------------------------------------- *)
(* The converter as a state machine                                        *)
(* ---------------------------------------------------------------------- *)
VARIABLES
  doc,           \* the Figma file behind file_key
  pc,            \* where the running call stands
  caller,        \* "none", "convert" or "all": the entry point that was called
  args,          \* the arguments passed on to convert_to_shotstack
  page,          \* target page of extract_page (0 before it returns)
  canvas,        \* <<canvas_width, canvas_height>>
  all_nodes,     \* the layers the walk returned
  requests,      \* the id lists sent to figma.get_file_images by this call
  figma_images,  \* node id -> URL, after the filter
  template,      \* what convert_to_shotstack returned
  error,         \* the messages of the exception raised, outermost first
  index,         \* convert_all_pages_to_shotstack: position in the page list
  templates,     \* convert_all_pages_to_shotstack: its local dict
  result,        \* what convert_all_pages_to_shotstack returned
  offsets        \* _calculate_offset called on its own: its last two calls

vars == <<doc, pc, caller, args, page, canvas, all_nodes, requests, figma_images,
          template, error, index, templates, result, offsets>>

\* requested clip durations and output sizes
Durations == {2, 5}
OutputSizes == {<<1200, 1200>>, <<800, 600>>}

NoArgs == [none |-> TRUE]
NoResult == [none |-> TRUE]
EmptyTemplates == [k \in {} |-> NoTemplate]

\* every argument list (page_name apart)
AllArgs ==
  { [populate_images |-> p, image_only |-> io, duration |-> du,
     output_width |-> sz[1], output_height |-> sz[2]] :
    p \in BOOLEAN, io \in BOOLEAN, du \in Durations, sz \in OutputSizes }

\* the defaults of the signature of convert_to_shotstack
DefaultArgs ==
  [populate_images |-> FALSE, image_only |-> FALSE, duration |-> 5,
   output_width |-> 1200, output_height |-> 1200]

\* the page names a caller may ask for; the empty name stands for None
PageNames(d) == {<<>>, MissingPage} \cup Range(d.pages)

InitWith(docs) ==
  /\ doc \in docs
  /\ pc = "idle"
  /\ caller = "none"
  /\ args = NoArgs
  /\ page = 0
  /\ canvas = <<0, 0>>
  /\ all_nodes = <<>>
  /\ requests = <<>>
  /\ figma_images = EmptyMap
  /\ template = NoTemplate
  /\ error = <<>>
  /\ index = 0
  /\ templates = EmptyTemplates
  /\ result = NoResult
  /\ offsets = <<>>

\* the page extract_page picks: the first page, or the first of that name
TargetPage(d, page_name) ==
  IF page_name = <<>>
  THEN IF d.pages # <<>> THEN 1 ELSE 0
  ELSE IF \E q \in DOMAIN d.pages : d.pages[q] = page_name
       THEN CHOOSE q \in DOMAIN d.pages :
              d.pages[q] = page_name /\ \A r \in 1..(q - 1) : d.pages[r] # page_name
       ELSE 0

\* the locals of a convert_to_shotstack call before its first statement
FreshCall ==
  /\ canvas' = <<0, 0>>
  /\ all_nodes' = <<>>
  /\ requests' = <<>>
  /\ figma_images' = EmptyMap
  /\ template' = NoTemplate

\* convert_to_shotstack is entered and extract_page gets the file
EnterConvert(page_name) ==
  /\ FreshCall
  /\ IF TargetPage(doc, page_name) = 0
     THEN /\ error' = <<"Failed to extract Figma page", "Page not found">>
          /\ pc' = "raised"
          /\ page' = 0
     ELSE /\ page' = TargetPage(doc, page_name)
          /\ pc' = "walk"
          /\ error' = error

\* convert_to_shotstack is entered and get_file raises in extract_page
EnterConvertFails ==
  /\ FreshCall
  /\ error' = <<"Failed to extract Figma page", "get_file failed">>
  /\ pc' = "raised"
  /\ page' = 0

ConvertWith(argset) ==
  /\ pc = "idle"
  /\ \E a \in argset : args' = a
  /\ caller' = "convert"
  /\ \E n \in PageNames(doc) : EnterConvert(n)
  /\ UNCHANGED <<doc, offsets, index, templates, result>>

ConvertFailsWith(argset) ==
  /\ pc = "idle"
  /\ \E a \in argset : args' = a
  /\ caller' = "convert"
  /\ EnterConvertFails
  /\ UNCHANGED <<doc, offsets, index, templates, result>>

\* a caller invokes convert_to_shotstack
Convert == ConvertWith(AllArgs)
ConvertFails == ConvertFailsWith(AllArgs)

\* the canvas and the walk over the main frame or the page's children
Walk ==
  /\ pc = "walk"
  /\ canvas' = Canvas(doc, page, args.output_width, args.output_height)
  /\ all_nodes' = WalkPage(doc, page, canvas'[1], canvas'[2])
  /\ pc' = "images"
  /\ UNCHANGED <<doc, offsets, caller, args, page, requests, figma_images, template, error,
                 index, templates, result>>

\* populate_images is off, or there is no node id to ask for
SkipImages ==
  /\ pc = "images"
  /\ ~args.populate_images \/ PageNodeIds(doc, page) = <<>>
  /\ figma_images' = EmptyMap
  /\ pc' = "build"
  /\ UNCHANGED <<doc, offsets, caller, args, page, canvas, all_nodes, requests, template,
                 error, index, templates, result>>

\* _fetch_figma_images: the service answers
FetchImages ==
  /\ pc = "images"
  /\ args.populate_images
  /\ PageNodeIds(doc, page) # <<>>
  /\ requests' = Append(requests, PageNodeIds(doc, page))
  /\ \E good \in SUBSET Range(PageNodeIds(doc, page)), bad \in BadValues :
       figma_images' = FilterImages(Response(PageNodeIds(doc, page), good, bad))
  /\ pc' = "build"
  /\ UNCHANGED <<doc, offsets, caller, args, page, canvas, all_nodes, template, error,
                 index, templates, result>>

\* the failure of the service let through to the caller
FetchImagesRaises ==
  /\ pc = "images"
  /\ args.populate_images
  /\ PageNodeIds(doc, page) # <<>>
  /\ requests' = Append(requests, PageNodeIds(doc, page))
  /\ error' = <<"Failed to fetch images from Figma">>
  /\ pc' = "raised"
  /\ UNCHANGED <<doc, offsets, caller, args, page, canvas, all_nodes, figma_images, template,
                 index, templates, result>>

\* _fetch_figma_images: the service raises, or its answer has no images
FetchImagesFails ==
  /\ pc = "images"
  /\ args.populate_images
  /\ PageNodeIds(doc, page) # <<>>
  /\ requests' = Append(requests, PageNodeIds(doc, page))
  /\ figma_images' = EmptyMap
  /\ pc' = "build"
  /\ UNCHANGED <<doc, offsets, caller, args, page, canvas, all_nodes, template, error,
                 index, templates, result>>

\* sort, build tracks and merge list, assemble and return the template
Build ==
  /\ pc = "build"
  /\ template' = Template(all_nodes, args, figma_images)
  /\ pc' = "returned"
  /\ UNCHANGED <<doc, offsets, caller, args, page, canvas, all_nodes, requests, figma_images,
                 error, index, templates, result>>

\* conversions of one page, of every argument list
Init == InitWith(Docs)
Next == Convert \/ ConvertFails \/ Walk \/ SkipImages \/ FetchImages
          \/ FetchImagesFails \/ Build
Spec == Init /\ [][Next]_vars

\* conversions of one page with the default arguments, of every tree shape
\* and of every naming of the layers
ConvertDefault == ConvertWith({DefaultArgs})
ConvertDefaultFails == ConvertFailsWith({DefaultArgs})
InitShapes == InitWith(ShapeDocs \cup NameDocsOf(FreeNames))
NextShapes == ConvertDefault \/ ConvertDefaultFails \/ Walk \/ SkipImages \/ Build
SpecShapes == InitShapes /\ [][NextShapes]_vars

(* ---------------------------------------------------------------------- *)
(* convert_all_pages_to_shotstack                                          *)
(* ---------------------------------------------------------------------- *)
\* re.sub(r'[^\w\-_]', '_', page_name)
SafeName(s) == [i \in 1..Len(s) |-> IF IsWord(s[i]) \/ s[i] = "-" THEN s[i] ELSE "_"]

\* templates[safe_name] = {...}
Put(dict, key, value) ==
  [k \in DOMAIN dict \cup {key} |-> IF k = key THEN value ELSE dict[k]]

\* a caller invokes convert_all_pages_to_shotstack and extract_all_pages
\* gets the page list
ConvertAll ==
  /\ pc = "idle"
  /\ \E a \in AllArgs : args' = a
  /\ caller' = "all"
  /\ index' = 1
  /\ templates' = EmptyTemplates
  /\ IF doc.pages = <<>>
     THEN /\ result' = [templates |-> EmptyTemplates]
          /\ pc' = "all_returned"
     ELSE /\ result' = result
          /\ pc' = "page"
  /\ UNCHANGED <<doc, offsets, page, canvas, all_nodes, requests, figma_images, template, error>>

\* get_file raises in extract_all_pages; both wrappers add their message
ConvertAllFails ==
  /\ pc = "idle"
  /\ \E a \in AllArgs : args' = a
  /\ caller' = "all"
  /\ error' = <<"Failed to convert all pages", "Failed to extract all Figma pages",
                "get_file failed">>
  /\ pc' = "all_raised"
  /\ UNCHANGED <<doc, offsets, page, canvas, all_nodes, requests, figma_images, template,
                 index, templates, result>>

\* the loop body calls convert_to_shotstack for the page at index
ConvertPage ==
  /\ pc = "page"
  /\ EnterConvert(doc.pages[index])
  /\ UNCHANGED <<doc, offsets, caller, args, index, templates, result>>

\* the loop body calls convert_to_shotstack and get_file raises
ConvertPageFails ==
  /\ pc = "page"
  /\ EnterConvertFails
  /\ UNCHANGED <<doc, offsets, caller, args, index, templates, result>>

\* the template of the page is stored; the loop goes on or the dict is returned
StorePage ==
  /\ caller = "all"
  /\ pc = "returned"
  /\ templates' = Put(templates, SafeName(doc.pages[index]),
                      [original_name |-> doc.pages[index], template |-> template])
  /\ IF index < Len(doc.pages)
     THEN /\ index' = index + 1
          /\ pc' = "page"
          /\ result' = result
     ELSE /\ index' = index
          /\ pc' = "all_returned"
          /\ result' = [templates |-> templates']
  /\ UNCHANGED <<doc, offsets, caller, args, page, canvas, all_nodes, requests, figma_images,
                 template, error>>

\* the exception of the page noted and the pages done so far returned
AbortAllKeepsPages ==
  /\ caller = "all"
  /\ pc = "raised"
  /\ error' = <<"Failed to convert all pages">> \o error
  /\ result' = [templates |-> templates]
  /\ pc' = "all_returned"
  /\ UNCHANGED <<doc, offsets, caller, args, page, canvas, all_nodes, requests, figma_images,
                 template, index, templates>>

\* the except clause: the exception of the page is wrapped and raised
AbortAll ==
  /\ caller = "all"
  /\ pc = "raised"
  /\ error' = <<"Failed to convert all pages">> \o error
  /\ pc' = "all_raised"
  /\ UNCHANGED <<doc, offsets, caller, args, page, canvas, all_nodes, requests, figma_images,
                 template, index, templates, result>>

\* conversions of all pages of the documents of several pages
InitAll == InitWith(PagesDocs)
NextAll == ConvertAll \/ ConvertAllFails \/ ConvertPage \/ ConvertPageFails
             \/ StorePage \/ AbortAll
             \/ Walk \/ SkipImages \/ FetchImages \/ FetchImagesFails \/ Build
SpecAll == InitAll /\ [][NextAll]_vars

(* ---------------------------------------------------------------------- *)
(* _calculate_offset on its own: any box on any canvas                      *)
(* ---------------------------------------------------------------------- *)
\* canvas_width, canvas_height
CanvasPool == {<<1200, 1200>>, <<800, 600>>, <<1080, 1920>>}
\* boxes far off the canvas on either side, on it, at its centre, of no area
OffsetBoxes ==
  { Box(x, y, w, h) : x \in {-3000, 350, 600, 5000},
                      y \in {-4000, -3000, 1, 2, 280, 600, 4000, 5000},
                      w \in {0, 100}, h \in {0, 40} }

InitOffset ==
  /\ doc \in NameDocsOf({NamePool[3]})
  /\ pc = "idle"
  /\ caller = "none"
  /\ args = NoArgs
  /\ page = 0
  /\ canvas \in CanvasPool
  /\ all_nodes = <<>>
  /\ requests = <<>>
  /\ figma_images = EmptyMap
  /\ template = NoTemplate
  /\ error = <<>>
  /\ index = 0
  /\ templates = EmptyTemplates
  /\ result = NoResult
  /\ offsets = <<>>

\* one call of _calculate_offset; the call before it is kept for comparison
CalculateOffset ==
  \E bbox \in OffsetBoxes :
    /\ pc = "idle"
    /\ caller = "none"
    /\ offsets' = (IF offsets = <<>> THEN <<>> ELSE <<offsets[Len(offsets)]>>)
                    \o << [bbox |-> bbox,
                           offset |-> calculate_offset(bbox, canvas[1], canvas[2])] >>
    /\ UNCHANGED <<doc, pc, caller, args, page, canvas, all_nodes, requests,
                   figma_images, template, error, index, templates, result>>

NextOffset == CalculateOffset
SpecOffset == InitOffset /\ [][NextOffset]_vars

(* ---------------------------------------------------------------------- *)
(* Properties                                                              *)
(* ---------------------------------------------------------------------- *)
Tracks == template.timeline.tracks
AfterWalk == pc \in {"images", "build", "returned"}
Returned == caller = "convert" /\ pc = "returned"
\* the clip the loop builds for a layer in the running call
ClipOf(layer) ==
  Clip(layer, args.populate_images, figma_images, ClipLength(args.duration, args.image_only))

\* the rank table of the layer order
RankOfName(name) ==
  LET n == lower(name)
      has(w) == Contains(n, w)
  IN  IF has(<<"f","r","a","m","e"," ","4">>) \/ has(<<"l","o","g","o">>) THEN 0
      ELSE IF has(<<"f","r","a","m","e"," ","1">>)
              \/ has(<<"b","a","c","k","g","r","o","u","n","d">>) THEN 1
      ELSE IF has(<<"f","r","a","m","e"," ","2">>) THEN 2
      ELSE IF has(<<"f","r","a","m","e"," ","3">>) THEN 3
      ELSE 10
RankAt(i) == RankOfName(all_nodes[i].node_name)

\* the place of the i-th layer of the walk in a stable sort by rank
PlaceOf(i) ==
  Cardinality({j \in DOMAIN all_nodes : RankAt(j) < RankAt(i)})
  + Cardinality({j \in 1..i : RankAt(j) = RankAt(i)})

\* C1: the tracks of the returned template are the layers of the walk sorted
\* by rank: every layer sits behind all layers of lower rank and behind the
\* layers of its own rank that the walk met earlier, so the track list is a
\* permutation of the layer list.
C1_TracksSortedByRank ==
  Returned =>
    /\ Len(Tracks) = Len(all_nodes)
    /\ \A i \in DOMAIN all_nodes :
         /\ PlaceOf(i) \in DOMAIN Tracks
         /\ Tracks[PlaceOf(i)].clips[1] = ClipOf(all_nodes[i])
    /\ \A i, j \in DOMAIN all_nodes :
         RankAt(i) < RankAt(j) \/ (RankAt(i) = RankAt(j) /\ i < j) => PlaceOf(i) < PlaceOf(j)

\* a template whose layers were reordered and hold two of one rank
C1_Witness ==
  /\ Returned
  /\ Len(all_nodes) >= 3
  /\ \E i, j \in DOMAIN all_nodes : i < j /\ RankAt(i) > RankAt(j)
  /\ \E i, j \in DOMAIN all_nodes : i < j /\ RankAt(i) = RankAt(j) /\ PlaceOf(j) = PlaceOf(i) + 1
  /\ \E i \in DOMAIN all_nodes : RankAt(i) = 0 /\ Contains(lower(all_nodes[i].node_name), <<"f","r","a","m","e"," ","2">>)

\* the frames of the walk that hold a RECTANGLE or VECTOR child
IsImageKind(n) == doc.kind[n] \in {"RECTANGLE", "VECTOR"}
CompositeFrames ==
  {n \in VisitedNodes(doc, page) :
     doc.kind[n] = "FRAME" /\ \E c \in NodeIds : doc.parent[c] = n /\ IsImageKind(c)}
FirstImageChild(n) ==
  CHOOSE c \in NodeIds :
    /\ doc.parent[c] = n /\ IsImageKind(c)
    /\ \A e \in NodeIds : doc.parent[e] = n /\ IsImageKind(e) => c <= e
\* the positions of the layers whose fetch target lies in the subtree of n
LayersBelow(n) == {i \in DOMAIN all_nodes : all_nodes[i].node_id \in Subtree(doc, n)}

\* C2: a visited frame with a RECTANGLE or VECTOR child gives exactly one
\* layer for its whole subtree, placed and scaled by the frame's box, named
\* by the frame and fetching the first such child, never the frame.
C2_OneLayerPerCompositeFrame ==
  AfterWalk =>
    \A n \in CompositeFrames :
      /\ Cardinality(LayersBelow(n)) = 1
      /\ \A i \in LayersBelow(n) :
           /\ all_nodes[i].offset = calculate_offset(doc.box[n], canvas[1], canvas[2])
           /\ all_nodes[i].scale = MeanScale(doc.box[n].width, doc.box[n].height,
                                             canvas[1], canvas[2])
           /\ all_nodes[i].node_id = FirstImageChild(n)
           /\ all_nodes[i].node_id # n
           /\ all_nodes[i].node_name = doc.name[n]

\* a composite frame holding a vector that is not its fetch target
C2_Witness ==
  /\ AfterWalk
  /\ \E n \in CompositeFrames :
       \E v \in Subtree(doc, n) \ {n, FirstImageChild(n)} : doc.kind[v] = "VECTOR"

\* C3: every visited node the classifier turns into a layer has that layer
\* in the result of the walk.
C3_ClassifiedNodesEmitted ==
  AfterWalk =>
    \A n \in VisitedNodes(doc, page) :
      LET layer == parse_node(doc, n, canvas[1], canvas[2])
      IN  layer # NoLayer =>
            \E i \in DOMAIN all_nodes :
              /\ all_nodes[i].type = layer.type
              /\ all_nodes[i].asset = layer.asset
              /\ all_nodes[i].offset = layer.offset

\* C4: a visited node that is neither FRAME nor VECTOR gives the layers of
\* its children in child order, and none when it has no children.
C4_OtherKindsRecurse ==
  AfterWalk =>
    \A n \in VisitedNodes(doc, page) :
      doc.kind[n] \notin {"FRAME", "VECTOR"} =>
        SelectSeq(all_nodes, LAMBDA l : l.node_id \in Subtree(doc, n))
          = ExtractEach(doc, Children(doc, n), canvas[1], canvas[2])

\* the asset reference of the j-th track
SrcAt(j) == Tracks[j].clips[1].asset.src
\* the merge list of the template, empty without the key
MergeList == IF "merge" \in DOMAIN template THEN template.merge ELSE <<>>

\* a reference of the form {{ NAME }}, NAME of letters, digits and underscores
IsPlaceholderForm(src) ==
  /\ Len(src) >= 7
  /\ SubSeq(src, 1, 3) = <<"{", "{", " ">>
  /\ SubSeq(src, Len(src) - 2, Len(src)) = <<" ", "}", "}">>
  /\ \A i \in 4..(Len(src) - 3) : IsWord(src[i])
NameIn(src) == SubSeq(src, 4, Len(src) - 3)

\* the merge list holds, in track order, the entries of the tracks of js
MergeListIsOf(js) ==
  /\ Len(MergeList) = Cardinality(js)
  /\ \A j \in js :
       MergeList[Cardinality({i \in js : i <= j})] = [find |-> NameIn(SrcAt(j)), replace |-> <<>>]

\* C5: the merge list has one entry {find: NAME, replace: ""} for every track
\* whose final reference is a placeholder {{ NAME }}, in track order and with
\* repeated names kept; the template has no merge key when there is no entry.
C5_MergeEntryPerPlaceholder ==
  Returned =>
    LET held == {j \in DOMAIN Tracks : IsPlaceholderForm(SrcAt(j))}
    IN  /\ MergeListIsOf(held)
        /\ "merge" \in DOMAIN template <=> held # {}

\* a merge list with one name twice, next to a track without an entry
C5_Witness ==
  /\ Returned
  /\ \E i, j \in DOMAIN MergeList : i < j /\ MergeList[i] = MergeList[j]
  /\ \E j \in DOMAIN Tracks : ~IsPlaceholderForm(SrcAt(j))

\* C6: with populate_images, a layer whose node id is in the map of usable
\* URLs gets that URL as reference of its clip and no merge entry; any other
\* layer keeps its placeholder and its merge entry; the layers of the walk
\* keep their own references.
C6_ResolvedUrlOverlay ==
  Returned /\ args.populate_images =>
    LET layers == sorted(all_nodes)
        resolved == {j \in DOMAIN layers : layers[j].node_id \in DOMAIN figma_images}
        kept == {j \in DOMAIN layers \ resolved : IsPlaceholderForm(layers[j].asset.src)}
    IN  /\ \A j \in resolved :
             SrcAt(j) = figma_images[layers[j].node_id] /\ ValidUrl(SrcAt(j))
        /\ \A j \in DOMAIN layers \ resolved : SrcAt(j) = layers[j].asset.src
        /\ MergeListIsOf(kept)
        /\ \A i \in DOMAIN all_nodes :
             all_nodes[i].asset.src = Placeholder(all_nodes[i].node_name)

\* a template with a resolved layer and a layer left with its placeholder
C6_Witness ==
  /\ Returned /\ args.populate_images
  /\ \E i, j \in DOMAIN all_nodes :
       /\ all_nodes[i].node_id \in DOMAIN figma_images
       /\ all_nodes[j].node_id \notin DOMAIN figma_images
  /\ Len(MergeList) >= 1
  /\ Len(MergeList) < Len(Tracks)

\* C7: a failed image fetch never raises to the caller, and the template
\* returned after it is the one of the call without populate_images: all
\* tracks in the same order, every placeholder and merge entry kept.
C7_FetchFailureDegrades ==
  /\ caller = "convert" /\ pc = "raised" => requests = <<>>
  /\ Returned /\ args.populate_images /\ requests # <<>> /\ figma_images = EmptyMap =>
       /\ template = Template(all_nodes, [args EXCEPT !.populate_images = FALSE], EmptyMap)
       /\ \A j \in DOMAIN Tracks : SrcAt(j) = sorted(all_nodes)[j].asset.src

\* a template of two tracks or more returned after a fetch without result
C7_Witness ==
  /\ Returned /\ args.populate_images
  /\ requests # <<>> /\ figma_images = EmptyMap
  /\ Len(Tracks) >= 2
  /\ Len(MergeList) >= 2

\* the safe names of the first n pages
SafeNames(n) == {SafeName(doc.pages[q]) : q \in 1..n}

\* C8: pages are converted in document order; once a page has failed the
\* call raises the wrapped error and returns nothing, whatever templates it
\* holds; a mapping is returned only after every page was converted.
C8_AllPagesOrNothing ==
  /\ error # <<>> => result = NoResult
  /\ pc = "all_raised" => error[1] = "Failed to convert all pages"
  /\ caller = "all" /\ pc \in {"page", "walk", "images", "build", "returned", "raised"} =>
       DOMAIN templates = SafeNames(index - 1)
  /\ result # NoResult =>
       /\ pc = "all_returned"
       /\ index = Len(doc.pages)
       /\ DOMAIN result.templates = SafeNames(Len(doc.pages))
       /\ \A k \in DOMAIN result.templates :
            \E q \in DOMAIN doc.pages :
              SafeName(doc.pages[q]) = k /\ result.templates[k].original_name = doc.pages[q]

\* the call has raised on a later page while holding the template of a first
C8_Witness ==
  /\ pc = "all_raised"
  /\ index >= 2
  /\ templates # EmptyTemplates
  /\ result = NoResult

\* C9: image_only drops the fps field and makes every clip 1 long; without it
\* the fps field is there and every clip is as long as requested; every track
\* holds one clip starting at 0 and the size is the one requested.
C9_ImageOnlyOutput ==
  Returned =>
    /\ template.output.size = [width |-> args.output_width, height |-> args.output_height]
    /\ "fps" \in DOMAIN template.output <=> ~args.image_only
    /\ \A j \in DOMAIN Tracks :
         /\ Len(Tracks[j].clips) = 1
         /\ Tracks[j].clips[1].start = 0
         /\ Tracks[j].clips[1].length = IF args.image_only THEN 1 ELSE args.duration

\* an image-only template of several tracks whose canvas is not the output size
C9_Witness ==
  /\ Returned /\ args.image_only
  /\ args.duration # 1
  /\ Len(Tracks) >= 2
  /\ canvas # <<args.output_width, args.output_height>>

RECURSIVE Gcd(_, _)
Gcd(a, b) == IF b = 0 THEN a ELSE Gcd(b, a % b)
Abs(x) == IF x < 0 THEN -x ELSE x
\* s thousandths is num/den rounded to 3 decimals
IsRounded(s, num, den) ==
  LET g == Gcd(num, den)
  IN  2 * Abs(s * (den \div g) - 1000 * (num \div g)) <= den \div g

\* C10: the layer of a composite frame of width w and height h has
\* fit = contain exactly when w > 1.5 h and max(w, h) < 400, else crop, and
\* its scale is the mean of w / canvas width and h / canvas height rounded
\* to 3 decimals.
C10_CompositeFitAndScale ==
  AfterWalk =>
    \A n \in CompositeFrames : \A i \in LayersBelow(n) :
      LET w == doc.box[n].width
          h == doc.box[n].height
      IN  /\ all_nodes[i].fit =
               (IF 10 * w > 15 * h /\ w < 400 /\ h < 400 THEN "contain" ELSE "crop")
          /\ IsRounded(all_nodes[i].scale, w * canvas[2] + h * canvas[1],
                       2 * canvas[1] * canvas[2])

\* the frame of 100 x 50 on the canvas of 1200 x 1200, shown in full
C10_Witness ==
  /\ AfterWalk
  /\ canvas = <<1200, 1200>>
  /\ \E n \in CompositeFrames : \E i \in LayersBelow(n) :
       /\ doc.box[n].width = 100 /\ doc.box[n].height = 50
       /\ all_nodes[i].fit = "contain"
       /\ all_nodes[i].scale = 62

\* C11: for every box and every canvas of positive width and height both
\* offsets lie within [-1, 1], and a box whose centre is the centre of the
\* canvas gets (0, 0).
C11_OffsetWithinUnitRange ==
  \A i \in DOMAIN offsets :
    LET b == offsets[i].bbox
        o == offsets[i].offset
    IN  /\ -1000 <= o[1] /\ o[1] <= 1000
        /\ -1000 <= o[2] /\ o[2] <= 1000
        /\ 2 * b.x + b.width = canvas[1] /\ 2 * b.y + b.height = canvas[2] => o = <<0, 0>>

\* a box of no area far off the canvas, then a box at the centre of the canvas
C11_Witness ==
  /\ Len(offsets) = 2
  /\ offsets[1].bbox = Box(5000, -4000, 0, 0)
  /\ offsets[1].offset = <<1000, 1000>>
  /\ 2 * offsets[2].bbox.x + offsets[2].bbox.width = canvas[1]
  /\ 2 * offsets[2].bbox.y + offsets[2].bbox.height = canvas[2]
  /\ offsets[2].offset = <<0, 0>>

\* two calls whose boxes differ only in y, the second one lower on the page
MovedDown ==
  /\ Len(offsets) = 2
  /\ offsets[2].bbox = [offsets[1].bbox EXCEPT !.y = offsets[2].bbox.y]
  /\ offsets[1].bbox.y < offsets[2].bbox.y

\* the Y offset before rounding, clamped, as a multiple of 1 / (2 canvas_height)
ClampedY(b) ==
  LET num == canvas[2] - 2 * b.y - b.height
  IN  IF num > 2 * canvas[2] THEN 2 * canvas[2]
      ELSE IF num < -2 * canvas[2] THEN -2 * canvas[2] ELSE num

\* C12 as stated: a box moved down gets a strictly smaller Y offset unless
\* that offset is clamped at -1; its X offset is unchanged.
C12_MovedDownStrictlySmaller ==
  MovedDown =>
    /\ offsets[2].offset[2] < offsets[1].offset[2] \/ offsets[2].offset[2] = -1000
    /\ offsets[2].offset[1] = offsets[1].offset[1]

\* C12: a box moved down never gets a larger Y offset, and gets a strictly
\* smaller one whenever the clamped offsets before rounding differ by more
\* than 0.001; its X offset is unchanged.
C12_MovedDownNeverLarger ==
  MovedDown =>
    /\ offsets[2].offset[2] <= offsets[1].offset[2]
    /\ 1000 * (ClampedY(offsets[1].bbox) - ClampedY(offsets[2].bbox)) > 2 * canvas[2]
         => offsets[2].offset[2] < offsets[1].offset[2]
    /\ offsets[2].offset[1] = offsets[1].offset[1]

\* a box on the canvas moved down by more than a thousandth of its height
C12_Witness ==
  /\ MovedDown
  /\ offsets[1].bbox.y = 1 /\ offsets[2].bbox.y = 600
  /\ offsets[2].offset[2] < offsets[1].offset[2]
  /\ offsets[2].offset[2] > -1000

\* C13: a call of convert_to_shotstack sends at most one image request, only
\* with populate_images, only with a non-empty id list and only after the
\* page was fetched and walked; that list holds the node_id of every layer of
\* the walk, and with populate_images no layer is built without a request.
C13_OneImageRequest ==
  caller = "convert" =>
    /\ Len(requests) <= 1
    /\ requests # <<>> =>
         /\ args.populate_images
         /\ requests[1] # <<>>
         /\ page # 0
         /\ pc \in {"build", "returned"}
         /\ \A i \in DOMAIN all_nodes : all_nodes[i].node_id \in Range(requests[1])
    /\ pc \in {"build", "returned"} /\ args.populate_images /\ all_nodes # <<>>
         => requests # <<>>

\* one request made for a composite layer and a second layer
C13_Witness ==
  /\ Returned /\ args.populate_images
  /\ Len(requests) = 1
  /\ Len(all_nodes) >= 1
  /\ \E i \in DOMAIN all_nodes : doc.kind[all_nodes[i].node_id] = "RECTANGLE"
  /\ Len(requests[1]) > Len(all_nodes)

====
